---------------------------- MODULE Spec2Model ----------------------------
(***************************************************************************)
(* A model of the game-tree reducer of src/src/utils/treeReducer.ts.       *)
(*                                                                         *)
(* A TreeNode is a record whose `children` field is a sequence of nodes;   *)
(* a JavaScript array index k is the TLA+ sequence index k + 1.  A node    *)
(* reference (object identity) is modelled by the address of the node:     *)
(* the sequence of child indices that leads to it from the root.  The      *)
(* tree is owned exclusively by its root and no node is shared, so two     *)
(* references are the same object exactly when the addresses are equal.    *)
(*                                                                         *)
(* The rule-validation collaborator (chess.js) is modelled on a fragment   *)
(* of chess: the double pawn pushes e4, d4, c4 (white) and e5, c5 (black). *)
(* A position encoding (fen) is the sequence of moves played from the      *)
(* starting position.                                                      *)
(***************************************************************************)
EXTENDS Integers, Sequences, FiniteSets, TLC

VARIABLES
    state,      \* the live TreeState: [root, headers, position, dirty]
    last,       \* the last action dispatched: [type, payload]
    thrown      \* whether the last dispatch raised an error

vars == <<state, last, thrown>>

---------------------------------------------------------------------------
(* Bounds of the model *)

\* entries in all children lists together (the root is not counted)
MaxNodes == 3
\* length of the current path
MaxPosLen == 2
\* fields of nodes and headers that edits have set; the entries and these
\* fields together are bounded by MaxNodes
MaxMarks == 2

---------------------------------------------------------------------------
(* JavaScript values and array operations *)

null == "null"

\* the value of an array slot that holds `undefined`
undefined == [undefined |-> TRUE]

\* truthiness of a value that is a TreeNode or undefined (`if (!node)`)
IsNode(n) == "children" \in DOMAIN n

Min(a, b) == IF a < b THEN a ELSE b

Max(a, b) == IF a > b THEN a ELSE b

\* Array.prototype.slice(0, -1)
sliceInit(arr) == IF Len(arr) = 0 THEN <<>> ELSE SubSeq(arr, 1, Len(arr) - 1)

\* Array.prototype.slice(0, i)
slice(arr, i) == SubSeq(arr, 1, Min(i, Len(arr)))

\* the index at which splice(start, ...) begins: a negative start counts
\* from the end
spliceStart(arr, start) ==
    IF start < 0 THEN Max(Len(arr) + start, 0) ELSE Min(start, Len(arr))

\* the elements arr.splice(start, 1) removes and returns
spliceRemoved(arr, start) ==
    LET s == spliceStart(arr, start)
    IN IF s < Len(arr) THEN <<arr[s + 1]>> ELSE <<>>

\* seeded fault: splice(start) without a delete count removes the whole tail
spliceRestTail(arr, start) == SubSeq(arr, 1, spliceStart(arr, start))

\* the array arr.splice(start, 1) leaves behind
spliceRest(arr, start) ==
    LET s == spliceStart(arr, start)
    IN IF s < Len(arr)
       THEN SubSeq(arr, 1, s) \o SubSeq(arr, s + 2, Len(arr))
       ELSE arr

---------------------------------------------------------------------------
(* The rule-validation collaborator *)

DEFAULT_POSITION == <<>>

WhiteMoves == {"e4", "d4", "c4"}

BlackMoves == {"e5", "c5"}

\* move descriptors: algebraic strings and one {from, to} object
Moves == WhiteMoves \cup BlackMoves \cup {"e2-e4"}

\* the canonical (SAN) form of a descriptor
San(move) == IF move = "e2-e4" THEN "e4" ELSE move

\* new Chess(fen).move(move): the canonical move and the resulting position,
\* or the illegal-move error
chessMove(fen, move) ==
    LET san == San(move)
        side == IF Len(fen) % 2 = 0 THEN WhiteMoves ELSE BlackMoves
        legal == san \in side /\ \A k \in 1..Len(fen) : fen[k] # san
    IN [legal |-> legal, san |-> san, fen |-> Append(fen, san)]

---------------------------------------------------------------------------
(* Node/Tree model *)

AnnotationNone == ""

\* the null of a field of type Score | null: a Score is a record with the
\* fields type and value
nullScore == [type |-> null]

\* seeded fault: the ply index is left at that of a root
createNodeAtPlyZero(fen, move, halfMoves) ==
    [fen |-> fen, move |-> move, children |-> <<>>, score |-> nullScore,
     depth |-> null, halfMoves |-> 0, shapes |-> <<>>,
     annotation |-> AnnotationNone, commentHTML |-> "", commentText |-> ""]

createNode(fen, move, halfMoves) ==
    [fen |-> fen, move |-> move, children |-> <<>>, score |-> nullScore,
     depth |-> null, halfMoves |-> halfMoves, shapes |-> <<>>,
     annotation |-> AnnotationNone, commentHTML |-> "", commentText |-> ""]

\* the optional field `start` is a sequence of at most one path: absent is
\* <<>>; the optional field `orientation` is a string, absent is null
defaultHeaders(fen) ==
    [id |-> 0, fen |-> fen, black |-> "", white |-> "", result |-> "*",
     event |-> "", site |-> "", start |-> <<>>, orientation |-> null]

defaultTree(fen) ==
    [dirty |-> FALSE,
     position |-> <<>>,
     root |-> createNode(fen, null, 0),
     headers |-> defaultHeaders(fen)]

---------------------------------------------------------------------------
(* Path addressing *)

\* seeded fault: an index out of range raises "Invalid path"
RECURSIVE getNodeAtPathStrict(_, _)
getNodeAtPathStrict(node, path) ==
    IF Len(path) = 0 THEN [thrown |-> FALSE, at |-> <<>>, node |-> node]
    ELSE IF ~IsNode(node) THEN [thrown |-> TRUE, at |-> <<>>, node |-> node]
    ELSE LET index == path[1]
         IN IF index >= Len(node.children)
            THEN [thrown |-> TRUE, at |-> <<>>, node |-> node]
            ELSE LET r == getNodeAtPathStrict(node.children[index + 1],
                                              Tail(path))
                 IN [r EXCEPT !.at = <<index>> \o @]

\* getNodeAtPath(node, path): the node returned and its address relative to
\* `node`; thrown when the walk reads `.children` of undefined
RECURSIVE getNodeAtPath(_, _)
getNodeAtPath(node, path) ==
    IF Len(path) = 0 THEN [thrown |-> FALSE, at |-> <<>>, node |-> node]
    ELSE IF ~IsNode(node) THEN [thrown |-> TRUE, at |-> <<>>, node |-> node]
    ELSE LET index == path[1]
         IN IF index >= Len(node.children)
            THEN [thrown |-> FALSE, at |-> <<>>, node |-> node]
            ELSE LET r == getNodeAtPath(node.children[index + 1], Tail(path))
                 IN [r EXCEPT !.at = <<index>> \o @]

\* the tree `node` with the children array of the node at address `at`
\* replaced (an in-place mutation of that array)
RECURSIVE setChildren(_, _, _)
setChildren(node, at, children) ==
    IF Len(at) = 0 THEN [node EXCEPT !.children = children]
    ELSE [node EXCEPT
            !.children[at[1] + 1] = setChildren(@, Tail(at), children)]

---------------------------------------------------------------------------
(* Traversal *)

\* seeded fault: the loop over the children stops at i > 0
RECURSIVE iterateSkipsFirst(_, _)
iterateSkipsFirst(stack, yielded) ==
    IF Len(stack) = 0 THEN [thrown |-> FALSE, yielded |-> yielded]
    ELSE LET item == stack[Len(stack)]
             n == IF IsNode(item.node) THEN Len(item.node.children) ELSE 0
             pushed == [k \in 1..(n - 1) |->
                          [position |-> Append(item.position, n - k),
                           node |-> item.node.children[n - k + 1]]]
         IN IF ~IsNode(item.node)
            THEN [thrown |-> TRUE, yielded |-> Append(yielded, item)]
            ELSE iterateSkipsFirst(sliceInit(stack) \o pushed,
                                   Append(yielded, item))

treeIteratorSkipsFirst(node) ==
    iterateSkipsFirst(<<[position |-> <<>>, node |-> node]>>, <<>>)

\* the ListNodes pushed for the children of `item`, the last child first
pushChildren(item) ==
    LET n == Len(item.node.children)
    IN [k \in 1..n |->
          [position |-> Append(item.position, n - k),
           node |-> item.node.children[n - k + 1]]]

\* the generator's loop: the work-list and the ListNodes yielded so far;
\* thrown when `.children` of an undefined entry is read
RECURSIVE iterate(_, _)
iterate(stack, yielded) ==
    IF Len(stack) = 0 THEN [thrown |-> FALSE, yielded |-> yielded]
    ELSE LET item == stack[Len(stack)]
         IN IF ~IsNode(item.node)
            THEN [thrown |-> TRUE, yielded |-> Append(yielded, item)]
            ELSE iterate(sliceInit(stack) \o pushChildren(item),
                         Append(yielded, item))

\* treeIterator(node), run to its end: the sequence of ListNodes yielded
treeIterator(node) ==
    iterate(<<[position |-> <<>>, node |-> node]>>, <<>>)

---------------------------------------------------------------------------
(* Results of a dispatch *)

Return(s) == [state |-> s, thrown |-> FALSE]

Throw(s) == [state |-> s, thrown |-> TRUE]

---------------------------------------------------------------------------
(* Move application *)

\* seeded fault: n.move === m compares Move objects, which are never identical
findIndexMoveObject(children, san) ==
    IF \E k \in 1..Len(children) : ~IsNode(children[k]) THEN -2 ELSE -1

\* moveNode.children.findIndex((n) => n.move?.san === m.san): the index,
\* -1, or "throw" when an undefined entry is read before a match
findIndexSan(children, san) ==
    LET hits == {k \in 1..Len(children) :
                    ~IsNode(children[k]) \/ children[k].move = san}
    IN IF hits = {} THEN -1
       ELSE LET k == CHOOSE h \in hits : \A g \in hits : h <= g
            IN IF IsNode(children[k]) THEN k - 1 ELSE -2

makeMove(s, move) ==
    LET r == getNodeAtPath(s.root, s.position)
        moveNode == r.node
    IN IF r.thrown THEN Throw(s)
       ELSE IF ~IsNode(moveNode) THEN Return(s)
       ELSE LET m == chessMove(moveNode.fen, move)
            IN IF ~m.legal THEN Return(s)
               ELSE LET i == findIndexSan(moveNode.children, m.san)
                    IN IF i = -2 THEN Throw(s)
                       ELSE IF i # -1
                       THEN Return([s EXCEPT !.position = Append(@, i)])
                       ELSE LET newMoveNode ==
                                    createNode(m.fen, m.san,
                                               moveNode.halfMoves + 1)
                                children ==
                                    Append(moveNode.children, newMoveNode)
                            IN Return([s EXCEPT
                                 !.root = setChildren(@, r.at, children),
                                 !.position = Append(@, Len(children) - 1)])

---------------------------------------------------------------------------
(* Deletion *)

\* isPrefix(shorter, longer) of ./misc
isPrefix(shorter, longer) ==
    /\ Len(shorter) <= Len(longer)
    /\ \A k \in 1..Len(shorter) : shorter[k] = longer[k]

\* parent.children.findIndex((n) => n === node), the node and the parent
\* given by their addresses: the index of the child of `parentAt` whose
\* address is `nodeAt`, or -1
findIndexNode(parentAt, nodeAt) ==
    IF Len(nodeAt) = Len(parentAt) + 1 /\ sliceInit(nodeAt) = parentAt
    THEN nodeAt[Len(nodeAt)]
    ELSE -1

\* seeded fault: the sibling rule without the test of the lengths
deletePositionAnyLength(position, path) ==
    IF isPrefix(path, position) THEN sliceInit(path)
    ELSE IF isPrefix(sliceInit(path), position)
    THEN [position EXCEPT ![Len(position)] = 0]
    ELSE position

\* the current path after the deleted node has been spliced out
deletePosition(position, path) ==
    IF isPrefix(path, position) THEN sliceInit(path)
    ELSE IF isPrefix(sliceInit(path), position)
            /\ Len(position) = Len(path)
    THEN [position EXCEPT ![Len(position)] = 0]
    ELSE position

deleteMove(s, path) ==
    LET n == getNodeAtPath(s.root, path)
        p == getNodeAtPath(s.root, sliceInit(path))
    IN IF n.thrown THEN Throw(s)
       ELSE IF ~IsNode(n.node) THEN Return(s)
       ELSE IF p.thrown THEN Throw(s)
       ELSE IF ~IsNode(p.node) THEN Return(s)
       ELSE LET index == findIndexNode(p.at, n.at)
                children == spliceRest(p.node.children, index)
            IN Return([s EXCEPT
                 !.root = setChildren(@, p.at, children),
                 !.position = deletePosition(@, path)])

---------------------------------------------------------------------------
(* Variation promotion *)

\* path.reduceRight((acc, v, i) => (v === 0 ? acc : [v, i]), [0, 0]),
\* the elements path[0..k) still to be visited
RECURSIVE reduceRight(_, _, _)
reduceRight(path, k, acc) ==
    IF k = 0 THEN acc
    ELSE reduceRight(path, k - 1,
                     IF path[k] = 0 THEN acc ELSE <<path[k], k - 1>>)

\* seeded fault: state.position = path is assigned before the early returns
promoteVariationSelects(s, path) ==
    LET vi == reduceRight(path, Len(path), <<0, 0>>)
        v == vi[1]
        i == vi[2]
        t == [s EXCEPT !.position = path]
    IN IF i = 0 THEN Return(t)
       ELSE LET promotablePath == slice(path, i)
                newPath == [path EXCEPT ![i + 1] = 0]
                r == getNodeAtPath(s.root, promotablePath)
            IN IF r.thrown THEN Throw(t)
               ELSE Return([s EXCEPT
                      !.root = setChildren(@, r.at,
                                 <<r.node.children[v + 1]>>
                                    \o spliceRest(r.node.children, v)),
                      !.position = newPath])

promoteVariation(s, path) ==
    LET vi == reduceRight(path, Len(path), <<0, 0>>)
        v == vi[1]
        i == vi[2]
    IN IF i = 0 THEN Return(s)
       ELSE LET promotablePath == slice(path, i)
                newPath == [path EXCEPT ![i + 1] = 0]
            IN IF Len(promotablePath) = 0 THEN Return(s)
               ELSE LET r == getNodeAtPath(s.root, promotablePath)
                        node == r.node
                    IN IF r.thrown THEN Throw(s)
                       ELSE IF ~IsNode(node) THEN Return(s)
                       ELSE LET removed == spliceRemoved(node.children, v)
                                moved == IF Len(removed) = 0
                                         THEN undefined ELSE removed[1]
                                children ==
                                    <<moved>> \o spliceRest(node.children, v)
                            IN Return([s EXCEPT
                                 !.root = setChildren(@, r.at, children),
                                 !.position = newPath])

---------------------------------------------------------------------------
(* Edits of the selected node *)

\* the tree `root` with the node at address `at` replaced
RECURSIVE setNode(_, _, _)
setNode(root, at, node) ==
    IF Len(at) = 0 THEN node
    ELSE [root EXCEPT !.children[at[1] + 1] = setNode(@, Tail(at), node)]

\* case "SET_ANNOTATION"
setAnnotation(s, payload) ==
    LET r == getNodeAtPath(s.root, s.position)
    IN IF r.thrown THEN Throw(s)
       ELSE IF ~IsNode(r.node) THEN Return(s)
       ELSE Return([s EXCEPT !.root = setNode(@, r.at,
                [r.node EXCEPT !.annotation =
                    IF @ = payload THEN AnnotationNone ELSE payload])])

\* case "SET_COMMENT"
setComment(s, payload) ==
    LET r == getNodeAtPath(s.root, s.position)
    IN IF r.thrown THEN Throw(s)
       ELSE IF ~IsNode(r.node) THEN Return(s)
       ELSE Return([s EXCEPT !.root = setNode(@, r.at,
                [r.node EXCEPT !.commentHTML = payload.html,
                               !.commentText = payload.text])])

\* case "SET_SCORE"
setScore(s, payload) ==
    LET r == getNodeAtPath(s.root, s.position)
    IN IF r.thrown THEN Throw(s)
       ELSE IF ~IsNode(r.node) THEN Return(s)
       ELSE Return([s EXCEPT !.root = setNode(@, r.at,
                [r.node EXCEPT !.score = payload])])

---------------------------------------------------------------------------
(* Analysis application *)

\* a Score of type "cp"
cp(value) == [type |-> "cp", value |-> value]

\* getAnnotation(prevScore, curScore, color) of ./score: the mover's move
\* is a blunder when the evaluation swings against the mover by three
\* pawns or more
getAnnotation(prevScore, curScore, color) ==
    LET swing == IF color = "w" THEN prevScore.value - curScore.value
                 ELSE curScore.value - prevScore.value
    IN IF swing >= 300 THEN "??" ELSE AnnotationNone

\* the body of the loop of addAnalysis for the node `cur` and entry i
analysed(cur, analysis, i) ==
    LET prevScore == IF i > 0 THEN analysis[i].best.score ELSE cp(0)
        curScore == analysis[i + 1].best.score
        color == IF i % 2 = 0 THEN "w" ELSE "b"
        novelty == analysis[i + 1].novelty
    IN [cur EXCEPT
          !.score = curScore,
          !.commentHTML = IF novelty THEN "Novelty" ELSE @,
          !.commentText = IF novelty THEN "Novelty" ELSE @,
          !.annotation = getAnnotation(prevScore, curScore, color)]

\* the loop of addAnalysis from the entry at index 0 of `children`, which
\* is `cur`, and entry i of the analysis
RECURSIVE analyseLine(_, _, _)
analyseLine(children, analysis, i) ==
    IF Len(children) = 0 \/ ~IsNode(children[1]) \/ i >= Len(analysis)
    THEN children
    ELSE LET cur == analysed(children[1], analysis, i)
         IN [children EXCEPT ![1] =
                [cur EXCEPT !.children = analyseLine(@, analysis, i + 1)]]

\* seeded fault: the walk starts at the root (let cur = state.root)
addAnalysisFromRoot(s, analysis) ==
    Return([s EXCEPT !.root = analyseLine(<<@>>, analysis, 0)[1]])

addAnalysis(s, analysis) ==
    Return([s EXCEPT !.root.children = analyseLine(@, analysis, 0)])

---------------------------------------------------------------------------
(* Board markers *)

\* a DrawShape is a record with the fields orig, dest and brush
IsShape(x) == "orig" \in DOMAIN x

\* seeded fault: the marker is appended whether or not it is there
setShapesAppends(s, shapes) ==
    LET r == getNodeAtPath(s.root, s.position)
    IN IF r.thrown THEN Throw(s)
       ELSE IF ~IsNode(r.node) THEN Return(s)
       ELSE Return([s EXCEPT !.root = setNode(@, r.at,
                [r.node EXCEPT !.shapes =
                    Append(@, IF Len(shapes) = 0 THEN undefined
                              ELSE shapes[1])])])

\* node.shapes.findIndex((s) => s.orig === shape.orig &&
\* s.dest === shape.dest): the index, -1, or -2 when `.orig` of undefined
\* is read before a match
findIndexShape(shapes, shape) ==
    LET hits == {k \in 1..Len(shapes) :
                    \/ ~IsShape(shapes[k])
                    \/ ~IsShape(shape)
                    \/ (shapes[k].orig = shape.orig
                            /\ shapes[k].dest = shape.dest)}
    IN IF hits = {} THEN -1
       ELSE LET k == CHOOSE h \in hits : \A g \in hits : h <= g
            IN IF IsShape(shapes[k]) /\ IsShape(shape) THEN k - 1 ELSE -2

setShapes(s, shapes) ==
    LET r == getNodeAtPath(s.root, s.position)
        node == r.node
    IN IF r.thrown THEN Throw(s)
       ELSE IF ~IsNode(node) THEN Return(s)
       ELSE LET shape == IF Len(shapes) = 0 THEN undefined ELSE shapes[1]
                index == findIndexShape(node.shapes, shape)
            IN IF index = -2 THEN Throw(s)
               ELSE Return([s EXCEPT !.root = setNode(@, r.at,
                        [node EXCEPT !.shapes =
                            IF index # -1 THEN spliceRest(@, index)
                            ELSE Append(@, shape)])])

---------------------------------------------------------------------------
(* The action dispatcher *)

\* seeded fault: the loop ends at the first move the collaborator rejects
RECURSIVE makeMovesAborts(_, _)
makeMovesAborts(s, moves) ==
    IF Len(moves) = 0 THEN Return(s)
    ELSE LET r == makeMove(s, moves[1])
         IN IF r.thrown \/ r.state = s THEN r
            ELSE makeMovesAborts(r.state, Tail(moves))

\* for (const move of action.payload) makeMove(state, move)
RECURSIVE makeMoves(_, _)
makeMoves(s, moves) ==
    IF Len(moves) = 0 THEN Return(s)
    ELSE LET r == makeMove(s, moves[1])
         IN IF r.thrown THEN r ELSE makeMoves(r.state, Tail(moves))

goToEnd(s) ==
    LET RECURSIVE walk(_, _)
        walk(currentNode, endPosition) ==
            IF ~IsNode(currentNode) THEN Throw(s)
            ELSE IF Len(currentNode.children) > 0
            THEN walk(currentNode.children[1], Append(endPosition, 0))
            ELSE Return([s EXCEPT !.position = endPosition])
    IN walk(s.root, <<>>)

goToNext(s) ==
    LET r == getNodeAtPath(s.root, s.position)
    IN IF r.thrown THEN Throw(s)
       ELSE IF IsNode(r.node) /\ Len(r.node.children) > 0
       THEN Return([s EXCEPT !.position = Append(@, 0)])
       ELSE Return(s)

goToPrevious(s) ==
    IF Len(s.position) # 0
    THEN Return([s EXCEPT !.position = sliceInit(@)])
    ELSE Return(s)

treeReducer(s, action) ==
    CASE action.type = "MAKE_MOVE" ->
            makeMove([s EXCEPT !.dirty = TRUE], action.payload)
      [] action.type = "GO_TO_START" ->
            Return([s EXCEPT !.position = <<>>])
      [] action.type = "GO_TO_END" -> goToEnd(s)
      [] action.type = "GO_TO_NEXT" -> goToNext(s)
      [] action.type = "GO_TO_PREVIOUS" -> goToPrevious(s)
      [] action.type = "GO_TO_MOVE" ->
            Return([s EXCEPT !.position = action.payload])
      [] action.type = "MAKE_MOVES" ->
            makeMoves([s EXCEPT !.dirty = TRUE], action.payload)
      [] action.type = "DELETE_MOVE" ->
            deleteMove([s EXCEPT !.dirty = TRUE],
                       IF "payload" \in DOMAIN action
                       THEN action.payload ELSE s.position)
      [] action.type = "PROMOTE_VARIATION" ->
            promoteVariation([s EXCEPT !.dirty = TRUE], action.payload)
      [] action.type = "SET_STATE" -> Return(action.payload)
      [] action.type = "SAVE" -> Return([s EXCEPT !.dirty = FALSE])
      [] action.type = "RESET" -> Return(defaultTree(DEFAULT_POSITION))
      [] action.type = "SET_HEADERS" ->
            Return([s EXCEPT !.dirty = TRUE, !.headers = action.payload])
      [] action.type = "SET_ORIENTATION" ->
            Return([s EXCEPT !.dirty = TRUE,
                             !.headers.orientation = action.payload])
      [] action.type = "SET_START" ->
            Return([s EXCEPT !.dirty = TRUE,
                             !.headers.start = <<action.payload>>])
      [] action.type = "SET_ANNOTATION" ->
            setAnnotation([s EXCEPT !.dirty = TRUE], action.payload)
      [] action.type = "SET_COMMENT" ->
            setComment([s EXCEPT !.dirty = TRUE], action.payload)
      [] action.type = "SET_FEN" ->
            Return([s EXCEPT !.dirty = TRUE,
                             !.root = defaultTree(action.payload).root,
                             !.position = <<>>])
      [] action.type = "SET_SCORE" ->
            setScore([s EXCEPT !.dirty = TRUE], action.payload)
      [] action.type = "ADD_ANALYSIS" ->
            addAnalysis([s EXCEPT !.dirty = TRUE], action.payload)
      [] action.type = "SET_SHAPES" ->
            setShapes([s EXCEPT !.dirty = TRUE], action.payload)
      \* "SET_OUTCOME" has no case in the switch
      [] OTHER -> Return(s)

---------------------------------------------------------------------------
(* The state machine *)

RECURSIVE countEntries(_)
countEntries(node) ==
    IF ~IsNode(node) THEN 0
    ELSE LET RECURSIVE sum(_)
             sum(k) == IF k = 0 THEN 0
                       ELSE 1 + countEntries(node.children[k]) + sum(k - 1)
         IN sum(Len(node.children))

WithinBounds(s) ==
    /\ countEntries(s.root) <= MaxNodes
    /\ Len(s.position) <= MaxPosLen

\* the child indices the path payloads are written with
PathIndices == {0, 1, 2}

\* the payloads of GO_TO_MOVE, DELETE_MOVE and PROMOTE_VARIATION
Paths ==
    {<<>>} \cup {<<a>> : a \in PathIndices}
           \cup {<<a, b>> : a \in PathIndices, b \in PathIndices}

\* the payloads of MAKE_MOVES
MoveLists == {<<"e4", "e5">>, <<"e5", "d4">>, <<"d4", "d4", "c5">>}

\* the outcome of dispatching `action` on the live state
Dispatched(action) == treeReducer(state, action)

Enabled(action) == WithinBounds(Dispatched(action).state)

Init ==
    /\ state = defaultTree(DEFAULT_POSITION)
    /\ last = [type |-> "INIT", payload |-> null]
    /\ thrown = FALSE

MAKE_MOVE ==
    \E move \in Moves :
        LET action == [type |-> "MAKE_MOVE", payload |-> move]
        IN /\ Enabled(action)
           /\ state' = Dispatched(action).state
           /\ thrown' = Dispatched(action).thrown
           /\ last' = action

MAKE_MOVES ==
    \E moves \in MoveLists :
        LET action == [type |-> "MAKE_MOVES", payload |-> moves]
        IN /\ Enabled(action)
           /\ state' = Dispatched(action).state
           /\ thrown' = Dispatched(action).thrown
           /\ last' = action

GO_TO_START ==
    LET action == [type |-> "GO_TO_START", payload |-> null]
    IN /\ Enabled(action)
       /\ state' = Dispatched(action).state
       /\ thrown' = Dispatched(action).thrown
       /\ last' = action

GO_TO_END ==
    LET action == [type |-> "GO_TO_END", payload |-> null]
    IN /\ Enabled(action)
       /\ state' = Dispatched(action).state
       /\ thrown' = Dispatched(action).thrown
       /\ last' = action

GO_TO_NEXT ==
    LET action == [type |-> "GO_TO_NEXT", payload |-> null]
    IN /\ Enabled(action)
       /\ state' = Dispatched(action).state
       /\ thrown' = Dispatched(action).thrown
       /\ last' = action

GO_TO_PREVIOUS ==
    LET action == [type |-> "GO_TO_PREVIOUS", payload |-> null]
    IN /\ Enabled(action)
       /\ state' = Dispatched(action).state
       /\ thrown' = Dispatched(action).thrown
       /\ last' = action

GO_TO_MOVE ==
    \E path \in Paths :
        LET action == [type |-> "GO_TO_MOVE", payload |-> path]
        IN /\ Enabled(action)
           /\ state' = Dispatched(action).state
           /\ thrown' = Dispatched(action).thrown
           /\ last' = action

DELETE_MOVE ==
    \E path \in Paths :
        LET action == [type |-> "DELETE_MOVE", payload |-> path]
        IN /\ Enabled(action)
           /\ state' = Dispatched(action).state
           /\ thrown' = Dispatched(action).thrown
           /\ last' = action

\* DELETE_MOVE without payload
DELETE_CURRENT ==
    LET action == [type |-> "DELETE_MOVE"]
    IN /\ Enabled(action)
       /\ state' = Dispatched(action).state
       /\ thrown' = Dispatched(action).thrown
       /\ last' = action

PROMOTE_VARIATION ==
    \E path \in Paths :
        LET action == [type |-> "PROMOTE_VARIATION", payload |-> path]
        IN /\ Enabled(action)
           /\ state' = Dispatched(action).state
           /\ thrown' = Dispatched(action).thrown
           /\ last' = action

Next ==
    \/ MAKE_MOVE
    \/ MAKE_MOVES
    \/ GO_TO_START
    \/ GO_TO_END
    \/ GO_TO_NEXT
    \/ GO_TO_PREVIOUS
    \/ GO_TO_MOVE
    \/ DELETE_MOVE
    \/ DELETE_CURRENT
    \/ PROMOTE_VARIATION

Spec == Init /\ [][Next]_vars

---------------------------------------------------------------------------
(* The state machine of all actions of the reducer *)

\* the number of fields of the nodes below `node`, `node` included, that an
\* edit has set: score, annotation, comment, and each board marker
RECURSIVE countNodeMarks(_)
countNodeMarks(node) ==
    IF ~IsNode(node) THEN 0
    ELSE LET RECURSIVE sum(_)
             sum(k) == IF k = 0 THEN 0
                       ELSE countNodeMarks(node.children[k]) + sum(k - 1)
         IN (IF node.score # nullScore THEN 1 ELSE 0)
            + (IF node.annotation # AnnotationNone THEN 1 ELSE 0)
            + (IF node.commentText # "" THEN 1 ELSE 0)
            + Len(node.shapes)
            + sum(Len(node.children))

\* the same, with the header fields that an edit has set
countMarks(s) ==
    countNodeMarks(s.root)
    + (IF s.headers.white # "" THEN 1 ELSE 0)
    + (IF s.headers.orientation # null THEN 1 ELSE 0)
    + Len(s.headers.start)
    + (IF s.root.fen # DEFAULT_POSITION THEN 1 ELSE 0)

WithinMarks(s) ==
    /\ countMarks(s) <= MaxMarks
    /\ countEntries(s.root) + countMarks(s) <= MaxNodes

\* an edit is taken when its outcome is within all bounds
EnabledEdit(action) ==
    /\ WithinBounds(Dispatched(action).state)
    /\ WithinMarks(Dispatched(action).state)

\* the payloads of SET_STATE: a fresh tree and a loaded game with unsaved
\* changes
TreeStates ==
    {defaultTree(DEFAULT_POSITION),
     [makeMove(defaultTree(DEFAULT_POSITION), "d4").state
        EXCEPT !.dirty = TRUE]}

\* the payloads of SET_HEADERS
Headers == {[defaultHeaders(DEFAULT_POSITION) EXCEPT !.white = "W"]}

\* the payloads of SET_ORIENTATION
Orientations == {"white"}

\* the payloads of SET_START
Starts == {<<0>>}

\* the payloads of SET_ANNOTATION
Annotations == {"!", "??"}

\* the payloads of SET_COMMENT
Comments == {[html |-> "<p>x</p>", text |-> "x"]}

\* the payloads of SET_FEN: the position after 1. e4
Fens == {<<"e4">>}

\* the payloads of SET_SCORE
Scores == {cp(50)}

\* the payloads of SET_OUTCOME
Outcomes == {"1-0"}

\* markers: two on the same squares with different brushes, one elsewhere
e2e4 == [orig |-> "e2", dest |-> "e4", brush |-> "green"]

e2e4Red == [orig |-> "e2", dest |-> "e4", brush |-> "red"]

d2d4 == [orig |-> "d2", dest |-> "d4", brush |-> "green"]

\* the payloads of SET_SHAPES, the empty batch among them
ShapeBatches == {<<e2e4>>, <<e2e4Red, d2d4>>, <<d2d4>>, <<>>}

\* a MoveAnalysis
entry(value, novelty) == [best |-> [score |-> cp(value)], novelty |-> novelty]

\* the payloads of ADD_ANALYSIS
Analyses ==
    {<<entry(50, FALSE)>>,
     <<entry(0 - 300, FALSE)>>,
     <<entry(50, TRUE)>>,
     <<entry(50, FALSE), entry(50, FALSE), entry(50, FALSE)>>}

SET_STATE ==
    \E payload \in TreeStates :
        LET action == [type |-> "SET_STATE", payload |-> payload]
        IN /\ EnabledEdit(action)
           /\ state' = Dispatched(action).state
           /\ thrown' = Dispatched(action).thrown
           /\ last' = action

SAVE ==
    LET action == [type |-> "SAVE", payload |-> null]
    IN /\ EnabledEdit(action)
       /\ state' = Dispatched(action).state
       /\ thrown' = Dispatched(action).thrown
       /\ last' = action

RESET ==
    LET action == [type |-> "RESET", payload |-> null]
    IN /\ EnabledEdit(action)
       /\ state' = Dispatched(action).state
       /\ thrown' = Dispatched(action).thrown
       /\ last' = action

SET_HEADERS ==
    \E payload \in Headers :
        LET action == [type |-> "SET_HEADERS", payload |-> payload]
        IN /\ EnabledEdit(action)
           /\ state' = Dispatched(action).state
           /\ thrown' = Dispatched(action).thrown
           /\ last' = action

SET_ORIENTATION ==
    \E payload \in Orientations :
        LET action == [type |-> "SET_ORIENTATION", payload |-> payload]
        IN /\ EnabledEdit(action)
           /\ state' = Dispatched(action).state
           /\ thrown' = Dispatched(action).thrown
           /\ last' = action

SET_START ==
    \E payload \in Starts :
        LET action == [type |-> "SET_START", payload |-> payload]
        IN /\ EnabledEdit(action)
           /\ state' = Dispatched(action).state
           /\ thrown' = Dispatched(action).thrown
           /\ last' = action

SET_ANNOTATION ==
    \E payload \in Annotations :
        LET action == [type |-> "SET_ANNOTATION", payload |-> payload]
        IN /\ EnabledEdit(action)
           /\ state' = Dispatched(action).state
           /\ thrown' = Dispatched(action).thrown
           /\ last' = action

SET_COMMENT ==
    \E payload \in Comments :
        LET action == [type |-> "SET_COMMENT", payload |-> payload]
        IN /\ EnabledEdit(action)
           /\ state' = Dispatched(action).state
           /\ thrown' = Dispatched(action).thrown
           /\ last' = action

SET_FEN ==
    \E payload \in Fens :
        LET action == [type |-> "SET_FEN", payload |-> payload]
        IN /\ EnabledEdit(action)
           /\ state' = Dispatched(action).state
           /\ thrown' = Dispatched(action).thrown
           /\ last' = action

SET_SCORE ==
    \E payload \in Scores :
        LET action == [type |-> "SET_SCORE", payload |-> payload]
        IN /\ EnabledEdit(action)
           /\ state' = Dispatched(action).state
           /\ thrown' = Dispatched(action).thrown
           /\ last' = action

SET_OUTCOME ==
    \E payload \in Outcomes :
        LET action == [type |-> "SET_OUTCOME", payload |-> payload]
        IN /\ EnabledEdit(action)
           /\ state' = Dispatched(action).state
           /\ thrown' = Dispatched(action).thrown
           /\ last' = action

SET_SHAPES ==
    \E payload \in ShapeBatches :
        LET action == [type |-> "SET_SHAPES", payload |-> payload]
        IN /\ EnabledEdit(action)
           /\ state' = Dispatched(action).state
           /\ thrown' = Dispatched(action).thrown
           /\ last' = action

ADD_ANALYSIS ==
    \E payload \in Analyses :
        LET action == [type |-> "ADD_ANALYSIS", payload |-> payload]
        IN /\ EnabledEdit(action)
           /\ state' = Dispatched(action).state
           /\ thrown' = Dispatched(action).thrown
           /\ last' = action

\* the structural actions draw their payloads from these subsets of Moves,
\* MoveLists and Paths; [0, 1] is out of range until a node has two children
EditMoves == {"e4", "d4", "e5"}

EditMoveLists == {<<"e4", "e5">>}

EditPaths == {<<>>, <<0>>, <<1>>, <<0, 0>>, <<0, 1>>}

\* moves, navigation and structural edits
NextStructure ==
    \/ MAKE_MOVE /\ last'.payload \in EditMoves /\ WithinMarks(state')
    \/ MAKE_MOVES /\ last'.payload \in EditMoveLists /\ WithinMarks(state')
    \/ GO_TO_START
    \/ GO_TO_END
    \/ GO_TO_NEXT
    \/ GO_TO_PREVIOUS
    \/ GO_TO_MOVE /\ last'.payload \in EditPaths
    \/ DELETE_MOVE /\ last'.payload \in EditPaths
    \/ DELETE_CURRENT
    \/ PROMOTE_VARIATION /\ last'.payload \in EditPaths
                         /\ WithinMarks(state')

NextAll ==
    \/ NextStructure
    \/ SET_STATE
    \/ SAVE
    \/ RESET
    \/ SET_HEADERS
    \/ SET_ORIENTATION
    \/ SET_START
    \/ SET_ANNOTATION
    \/ SET_COMMENT
    \/ SET_FEN
    \/ SET_SCORE
    \/ SET_OUTCOME
    \/ SET_SHAPES
    \/ ADD_ANALYSIS

SpecAll == Init /\ [][NextAll]_vars

---------------------------------------------------------------------------
(* The state machines of one kind of edit on top of moves, navigation and  *)
(* structural edits                                                        *)

\* evaluations and annotations
NextAnalysis ==
    \/ NextStructure
    \/ SET_ANNOTATION
    \/ SET_SCORE
    \/ ADD_ANALYSIS

SpecAnalysis == Init /\ [][NextAnalysis]_vars

\* board markers
NextShapes ==
    \/ NextStructure
    \/ SET_SHAPES

SpecShapes == Init /\ [][NextShapes]_vars

\* a new starting position
NextFen ==
    \/ NextStructure
    \/ SET_FEN

SpecFen == Init /\ [][NextFen]_vars

---------------------------------------------------------------------------
(* The state machine of moves, navigation and structural edits whose path  *)
(* payload is the path of an existing node                                 *)

\* every index of the path is in range: the path leads to an entry
Existing(path) == getNodeAtPath(state.root, path).at = path

NextExisting ==
    \/ MAKE_MOVE
    \/ MAKE_MOVES
    \/ GO_TO_START
    \/ GO_TO_END
    \/ GO_TO_NEXT
    \/ GO_TO_PREVIOUS
    \/ GO_TO_MOVE /\ Existing(last'.payload)
    \/ DELETE_MOVE /\ Existing(last'.payload)
    \/ PROMOTE_VARIATION /\ Existing(last'.payload)

SpecExisting == Init /\ [][NextExisting]_vars

---------------------------------------------------------------------------
(* Vocabulary of the properties *)

\* the addresses of all entries of the tree below `node`, `node` included
RECURSIVE Addresses(_)
Addresses(node) ==
    IF ~IsNode(node) THEN {<<>>}
    ELSE {<<>>} \cup UNION {{<<k - 1>> \o a : a \in Addresses(node.children[k])} :
                              k \in 1..Len(node.children)}

\* the entry at an address of the tree
RECURSIVE NodeAt(_, _)
NodeAt(node, at) ==
    IF Len(at) = 0 THEN node ELSE NodeAt(node.children[at[1] + 1], Tail(at))

\* every entry of every children list is a node
WellFormed(root) == \A a \in Addresses(root) : IsNode(NodeAt(root, a))

\* the path leads, index by index, to a node of the tree
ResolvesFully(root, path) ==
    path \in Addresses(root) /\ IsNode(NodeAt(root, path))

Prefixes(path) == {SubSeq(path, 1, k) : k \in 0..Len(path)}

IsPrefixOf(p, q) == p \in Prefixes(q)

\* the longest prefix of the path whose every index is in range
DeepestValid(root, path) ==
    CHOOSE p \in Prefixes(path) \cap Addresses(root) :
        \A q \in Prefixes(path) \cap Addresses(root) : Len(q) <= Len(p)

\* paths probed by the properties of path addressing
ProbePaths == Paths \cup {<<0, 0, 0>>, <<0, 0, 1>>, <<0, 3>>, <<3>>}

---------------------------------------------------------------------------
---------------------------------------------------------------------------
(* C2: on a tree of nodes, every (position, node) pair treeIterator yields *)
(* is resolved by getNodeAtPath to that same node, and every node of the   *)
(* tree is yielded exactly once.                                           *)
C2_TraversalRoundTrip ==
    WellFormed(state.root) =>
        LET it == treeIterator(state.root)
            n == Len(it.yielded)
        IN /\ ~it.thrown
           /\ \A k \in 1..n :
                LET r == getNodeAtPath(state.root, it.yielded[k].position)
                IN /\ ~r.thrown
                   /\ r.at = it.yielded[k].position
                   /\ r.node = it.yielded[k].node
           /\ {it.yielded[k].position : k \in 1..n} = Addresses(state.root)
           /\ \A j, k \in 1..n :
                it.yielded[j].position = it.yielded[k].position => j = k

\* a tree with a branching root and a grandchild, traversed in pre-order
C2_Witness ==
    /\ WellFormed(state.root)
    /\ Len(state.root.children) = 2
    /\ Len(state.root.children[1].children) = 1
    /\ LET it == treeIterator(state.root)
       IN /\ Len(it.yielded) = 4
          /\ it.yielded[3].position = <<0, 0>>
          /\ it.yielded[4].position = <<1>>

---------------------------------------------------------------------------
(* Move application *)

\* the node the current path of `s` selects
Selected(s) == getNodeAtPath(s.root, s.position)

\* the collaborator's verdict on `move` at the selected node
Verdict(s, move) == chessMove(Selected(s).node.fen, move)

Selectable(s) == ~Selected(s).thrown /\ IsNode(Selected(s).node)

\* the children of `node` that carry the canonical move `san`
Carrying(node, san) ==
    {k \in 1..Len(node.children) :
        IsNode(node.children[k]) /\ node.children[k].move = san}

\* a node as move application creates it
IsFresh(n, san, halfMoves) ==
    /\ IsNode(n)
    /\ n.move = san
    /\ n.halfMoves = halfMoves
    /\ n.children = <<>>
    /\ n.score = nullScore /\ n.depth = null
    /\ n.shapes = <<>>
    /\ n.annotation = AnnotationNone
    /\ n.commentHTML = "" /\ n.commentText = ""

(* C3: when the collaborator rejects the move, MAKE_MOVE is a no-op: the   *)
(* whole TreeState (root, headers, current path, dirty flag) is the same   *)
(* before and after, and no error is raised.                               *)
C3_IllegalMoveIsNoOp ==
    [][(/\ last'.type = "MAKE_MOVE"
        /\ Selectable(state)
        /\ ~Verdict(state, last'.payload).legal)
       => (state' = state /\ ~thrown')]_vars

(* C4: in every reachable state, after MAKE_MOVE with a legal move the     *)
(* current path resolves to a child of the previously selected node that   *)
(* carries the canonical move; an existing child is reused and no node is  *)
(* created, otherwise exactly one fresh node is appended as the last child *)
(* and the path points at it.                                              *)
C4_MoveSelectsChild ==
    [][(/\ last'.type = "MAKE_MOVE"
        /\ Selectable(state)
        /\ Verdict(state, last'.payload).legal)
       => LET sel == Selected(state)
              san == Verdict(state, last'.payload).san
              now == Selected(state')
          IN /\ ~thrown' /\ ~now.thrown
             /\ Len(now.at) = Len(sel.at) + 1
             /\ sliceInit(now.at) = sel.at
             /\ IsNode(now.node) /\ now.node.move = san
             /\ IF Carrying(sel.node, san) # {}
                THEN state'.root = state.root
                ELSE /\ now.at = Append(sel.at, Len(sel.node.children))
                     /\ IsFresh(now.node, san, sel.node.halfMoves + 1)
                     /\ NodeAt(state'.root, sel.at).children
                            = Append(sel.node.children, now.node)
                     /\ countEntries(state'.root)
                            = countEntries(state.root) + 1]_vars

(* C5: after any sequence of MAKE_MOVE, MAKE_MOVES, navigation,            *)
(* DELETE_MOVE and PROMOTE_VARIATION actions from the default tree, no     *)
(* node has two children carrying the same canonical move, so applying a   *)
(* move again from the same node never adds a second child for it.         *)
C5_NoDuplicateMoves ==
    \A a \in Addresses(state.root) :
        LET node == NodeAt(state.root, a)
        IN IsNode(node) =>
             \A j, k \in 1..Len(node.children) :
                (/\ IsNode(node.children[j])
                 /\ IsNode(node.children[k])
                 /\ node.children[j].move = node.children[k].move) => j = k

\* the move e4 is applied a second time at the root, by its other
\* descriptor: the current path points at the existing child, which
\* still has its own child, and the root has no second e4
C5_Witness ==
    /\ last.type = "MAKE_MOVE" /\ last.payload = "e2-e4"
    /\ state.position = <<0>>
    /\ Len(state.root.children) = 2
    /\ state.root.children[1].move = "e4"
    /\ Len(state.root.children[1].children) = 1
    /\ state.root.children[2].move = "d4"

---------------------------------------------------------------------------
(* Deletion *)

\* the path a DELETE_MOVE acts on: its payload, or the current path
DeletePath(s, action) ==
    IF "payload" \in DOMAIN action THEN action.payload ELSE s.position

\* a node without its children
Label(n) == IF IsNode(n) THEN [n EXCEPT !.children = <<>>] ELSE n

\* where the entry at address `a` is found once the entry at `path` is
\* gone: later siblings of the deleted entry move one index down
Shifted(a, path) ==
    LET d == Len(path)
    IN IF /\ Len(a) >= d
          /\ SubSeq(a, 1, d - 1) = SubSeq(path, 1, d - 1)
          /\ a[d] > path[d]
       THEN [a EXCEPT ![d] = @ - 1]
       ELSE a

(* C6: for a non-empty delete path that resolves fully, DELETE_MOVE sets   *)
(* the current path to the deleted path minus its last index when the      *)
(* deleted path is a prefix of (or equal to) the current path; else, when  *)
(* the deleted path's parent is a prefix of the current path and both      *)
(* paths are equally long, it sets the trailing index of the current path  *)
(* to 0; otherwise it leaves the current path unchanged.                   *)
C6_DeleteAdjustsPath ==
    [][(/\ last'.type = "DELETE_MOVE"
        /\ DeletePath(state, last') # <<>>
        /\ ResolvesFully(state.root, DeletePath(state, last')))
       => LET path == DeletePath(state, last')
              parent == SubSeq(path, 1, Len(path) - 1)
              current == state.position
          IN state'.position =
                IF IsPrefixOf(path, current) THEN parent
                ELSE IF IsPrefixOf(parent, current)
                        /\ Len(current) = Len(path)
                THEN SubSeq(current, 1, Len(current) - 1) \o <<0>>
                ELSE current]_vars

\* the first of three root children has been deleted while a later
\* sibling was selected: two children remain and the trailing index of
\* the current path has been reset to 0
C6_Witness ==
    /\ last.type = "DELETE_MOVE"
    /\ "payload" \in DOMAIN last /\ last.payload = <<0>>
    /\ ~thrown
    /\ WellFormed(state.root)
    /\ Len(state.root.children) = MaxNodes - 1
    /\ state.position = <<0>>

(* C7: for a non-empty delete path that resolves fully, DELETE_MOVE        *)
(* removes exactly the addressed node and its subtree: the entries outside *)
(* the subtree are unchanged, the later siblings of the deleted node move  *)
(* one index down and keep their order.                                    *)
C7_DeleteRemovesSubtree ==
    [][(/\ last'.type = "DELETE_MOVE"
        /\ DeletePath(state, last') # <<>>
        /\ ResolvesFully(state.root, DeletePath(state, last')))
       => LET path == DeletePath(state, last')
              kept == {a \in Addresses(state.root) : ~IsPrefixOf(path, a)}
          IN /\ Addresses(state'.root) = {Shifted(a, path) : a \in kept}
             /\ \A a \in kept :
                    Label(NodeAt(state'.root, Shifted(a, path)))
                        = Label(NodeAt(state.root, a))]_vars

\* the middle one of the three root children e4, d4, c4 has been deleted:
\* e4 and c4 remain, in this order
C7_Witness ==
    /\ last.type = "DELETE_MOVE"
    /\ "payload" \in DOMAIN last /\ last.payload = <<1>>
    /\ ~thrown
    /\ WellFormed(state.root)
    /\ Len(state.root.children) = MaxNodes - 1
    /\ state.root.children[1].move = "e4"
    /\ state.root.children[2].move = "c4"

(* C8: DELETE_MOVE at a path that addresses no deletable node (the empty   *)
(* path, with or without payload, or a path with an index out of range) is *)
(* a no-op: no node is removed and the current path is unchanged.          *)
C8_DeleteUnresolvedIsNoOp ==
    [][(/\ last'.type = "DELETE_MOVE"
        /\ \/ DeletePath(state, last') = <<>>
           \/ DeletePath(state, last') \notin Addresses(state.root))
       => (/\ state'.root = state.root
           /\ state'.position = state.position)]_vars

---------------------------------------------------------------------------
(* Variation promotion *)

\* the array with the element at index v moved to the front
MovedToFront(arr, v) ==
    <<arr[v + 1]>> \o SubSeq(arr, 1, v) \o SubSeq(arr, v + 2, Len(arr))

\* the deepest position (from 1) of the path that holds a nonzero index
DeepestNonzero(path) ==
    CHOOSE d \in 1..Len(path) :
        path[d] # 0 /\ \A e \in (d + 1)..Len(path) : path[e] = 0

(* C9: for a fully resolvable path with a nonzero index,                   *)
(* PROMOTE_VARIATION acts at the deepest nonzero index d: the child        *)
(* path[d] of the node at path[0..d) moves to the front of its siblings,   *)
(* which keep their order, no other children list changes, and the current *)
(* path becomes the path with position d set to 0.                         *)
C9_PromoteDeepestNonzero ==
    [][(/\ last'.type = "PROMOTE_VARIATION"
        /\ ResolvesFully(state.root, last'.payload)
        /\ \E d \in 1..Len(last'.payload) : last'.payload[d] # 0)
       => LET path == last'.payload
              d == DeepestNonzero(path)
              parent == SubSeq(path, 1, d - 1)
              siblings == NodeAt(state.root, parent).children
          IN /\ state'.position = [path EXCEPT ![d] = 0]
             /\ state'.root =
                    setChildren(state.root, parent,
                                MovedToFront(siblings, path[d]))]_vars

(* C10: promoting a root-level variation: with root children               *)
(* [c0, ..., ck, ...], PROMOTE_VARIATION [k], k >= 1, makes the root's     *)
(* children [ck, c0, ..., c(k-1), c(k+1), ...] and the current path [0].   *)
C10_PromoteRootVariation ==
    [][(/\ last'.type = "PROMOTE_VARIATION"
        /\ Len(last'.payload) = 1
        /\ last'.payload[1] >= 1
        /\ last'.payload[1] < Len(state.root.children))
       => (/\ state'.root.children
                 = MovedToFront(state.root.children, last'.payload[1])
           /\ state'.position = <<0>>)]_vars

\* every index of the path is 0 (the empty path included)
AllZero(path) == \A k \in 1..Len(path) : path[k] = 0

(* C11: PROMOTE_VARIATION with a path whose indices are all 0 (the empty   *)
(* path included) leaves the tree, i.e. every children list in its order,  *)
(* and the current path unchanged.                                         *)
C11_PromoteMainlineIsNoOp ==
    [][(last'.type = "PROMOTE_VARIATION" /\ AllZero(last'.payload))
       => (/\ state'.root = state.root
           /\ state'.position = state.position
           /\ ~thrown')]_vars

\* the mainline path [0, 0] has been promoted in a tree that has a root
\* variation, while that variation was selected
C11_Witness ==
    /\ last.type = "PROMOTE_VARIATION" /\ last.payload = <<0, 0>>
    /\ ~thrown
    /\ WellFormed(state.root)
    /\ ResolvesFully(state.root, <<0, 0>>)
    /\ ResolvesFully(state.root, <<1>>)
    /\ state.position = <<1>>

\* the positions (from 1) of the path that hold a nonzero index
Nonzero(path) == {k \in 1..Len(path) : path[k] # 0}

(* C12: repeated promotion makes progress toward the root.  Each           *)
(* PROMOTE_VARIATION on a fully resolvable path with nonzero indices       *)
(* changes exactly one level: the current path becomes the path with one   *)
(* of its nonzero indices set to 0 and addresses the node the path         *)
(* addressed before.  Hence promoting the resulting current path again     *)
(* and again reaches, after as many invocations as the path has nonzero    *)
(* indices, an all-zero current path with the node on the mainline.        *)
C12_PromoteMakesProgress ==
    [][(/\ last'.type = "PROMOTE_VARIATION"
        /\ ResolvesFully(state.root, last'.payload)
        /\ ~AllZero(last'.payload))
       => LET path == last'.payload
          IN /\ ~thrown'
             /\ \E d \in Nonzero(path) :
                    state'.position = [path EXCEPT ![d] = 0]
             /\ ResolvesFully(state'.root, state'.position)
             /\ NodeAt(state'.root, state'.position)
                    = NodeAt(state.root, path)]_vars

---------------------------------------------------------------------------
(* Node lifecycle *)

\* the actions that replace the whole tree
Replacing == {"SET_STATE", "RESET", "SET_FEN"}

(* C13: over every action and every payload, paths with indices out of     *)
(* range included, the number of entries of the children lists grows only  *)
(* through MAKE_MOVE and MAKE_MOVES and shrinks only through DELETE_MOVE,  *)
(* whole-tree replacement by SET_STATE, RESET or SET_FEN apart; navigation,*)
(* annotation, comment, marker, score, analysis and promotion neither add  *)
(* nor remove an entry, and every entry is a proper node.                  *)
C13_NodeLifecycle ==
    [][/\ countEntries(state'.root) > countEntries(state.root)
            => last'.type \in {"MAKE_MOVE", "MAKE_MOVES"} \cup Replacing
       /\ countEntries(state'.root) < countEntries(state.root)
            => last'.type \in {"DELETE_MOVE"} \cup Replacing
       /\ WellFormed(state'.root)]_vars

---------------------------------------------------------------------------
(* Analysis application *)

\* the number of nodes on the mainline: the chain of first children below
\* `node`
RECURSIVE MainlineLen(_)
MainlineLen(node) ==
    IF ~IsNode(node) THEN 0
    ELSE IF Len(node.children) = 0 THEN 0
    ELSE IF ~IsNode(node.children[1]) THEN 0
    ELSE 1 + MainlineLen(node.children[1])

\* the address of the mainline node at ply k
Mainline(k) == [j \in 1..k |-> 0]

\* the annotation the classification collaborator gives ply k of an analysis
Classified(analysis, k) ==
    getAnnotation(IF k = 1 THEN cp(0) ELSE analysis[k - 1].best.score,
                  analysis[k].best.score,
                  IF k % 2 = 1 THEN "w" ELSE "b")

\* a node without its children and without the fields an analysis sets
Analysable(n) ==
    [Label(n) EXCEPT !.score = nullScore, !.annotation = AnnotationNone,
                     !.commentHTML = "", !.commentText = ""]

---------------------------------------------------------------------------
(* Board markers *)

\* the (orig, dest) identity of a marker
Pair(shape) ==
    IF IsShape(shape) THEN <<shape.orig, shape.dest>>
    ELSE <<"undefined", "undefined">>

\* the markers of a node as a set of (orig, dest) pairs
PairSet(node) == {Pair(node.shapes[k]) : k \in 1..Len(node.shapes)}

\* the batches that carry a first marker
FirstMarked == {batch \in ShapeBatches : Len(batch) > 0}

(* C15: SET_SHAPES toggles by (orig, dest) identity: two dispatches of      *)
(* SET_SHAPES with the same first marker (the same pair of squares) at     *)
(* the same current path return the marker set of the selected node, as a  *)
(* set of pairs, to what it was before, and no dispatch of the two changes *)
(* the markers of any other node.                                          *)
C15_ToggleTwiceRestores ==
    \A b1, b2 \in FirstMarked :
        Pair(b1[1]) = Pair(b2[1]) =>
            LET once == treeReducer(state,
                            [type |-> "SET_SHAPES", payload |-> b1]).state
                twice == treeReducer(once,
                            [type |-> "SET_SHAPES", payload |-> b2]).state
            IN /\ once.position = state.position
               /\ twice.position = state.position
               /\ Addresses(once.root) = Addresses(state.root)
               /\ Addresses(twice.root) = Addresses(state.root)
               /\ \A a \in Addresses(state.root) :
                    LET before == NodeAt(state.root, a)
                        between == NodeAt(once.root, a)
                        after == NodeAt(twice.root, a)
                    IN IsNode(before) =>
                        /\ PairSet(after) = PairSet(before)
                        /\ a # Selected(state).at =>
                            (/\ between.shapes = before.shapes
                             /\ after.shapes = before.shapes)

\* the selected node, one ply down, carried markers on e2-e4 and d2-d4,
\* and a SET_SHAPES whose first marker is on e2-e4 has removed that one
\* and left the other
C15_Witness ==
    /\ last.type = "SET_SHAPES" /\ ~thrown
    /\ last.payload = <<e2e4Red, d2d4>>
    /\ state.position = <<0>>
    /\ ResolvesFully(state.root, <<0>>)
    /\ NodeAt(state.root, <<0>>).shapes = <<d2d4>>

---------------------------------------------------------------------------
(* The dirty flag *)

\* the actions that change content
Mutating ==
    {"SET_HEADERS", "SET_ORIENTATION", "SET_START", "MAKE_MOVE",
     "MAKE_MOVES", "DELETE_MOVE", "SET_ANNOTATION", "SET_COMMENT",
     "SET_FEN", "SET_SCORE", "ADD_ANALYSIS", "SET_SHAPES",
     "PROMOTE_VARIATION"}

\* save and full-state replacement
Clearing == {"SAVE", "SET_STATE", "RESET"}

(* C16: the dirty flag of the state that is live after a dispatch is true  *)
(* after every content-mutating action and false after SAVE, SET_STATE     *)
(* and RESET, whatever the payload.                                        *)
C16_DirtyFollowsAction ==
    [][/\ last'.type \in Mutating => state'.dirty
       /\ last'.type \in Clearing => ~state'.dirty]_vars

---------------------------------------------------------------------------
(* Totality *)

(* C17: dispatch is total: in every state reachable from the default tree, *)
(* whatever the actions dispatched so far (GO_TO_MOVE, DELETE_MOVE and     *)
(* PROMOTE_VARIATION with indices out of range among them), the last       *)
(* dispatch has raised no error and the tree is well-formed.               *)
C17_DispatchIsTotal == ~thrown /\ WellFormed(state.root)

---------------------------------------------------------------------------
(* Move lists *)

\* the outcome of dispatching MAKE_MOVE for each move of the list in turn,
\* starting from `s`; thrown when one of the dispatches raised an error
RECURSIVE OneByOne(_, _)
OneByOne(s, moves) ==
    IF Len(moves) = 0 THEN Return(s)
    ELSE LET r == treeReducer(s, [type |-> "MAKE_MOVE", payload |-> moves[1]])
             rest == OneByOne(r.state, Tail(moves))
         IN [rest EXCEPT !.thrown = @ \/ r.thrown]

\* the lists probed: the payloads of MAKE_MOVES and lists of one move
ProbeLists == MoveLists \cup {<<"e2-e4">>, <<"c5">>}

(* C18: in every state with a well-formed tree, MAKE_MOVES with the list   *)
(* [m1, ..., mk] gives the same state as MAKE_MOVE m1, then MAKE_MOVE m2,  *)
(* ..., then MAKE_MOVE mk, each applied where the previous one ended; a    *)
(* move the collaborator rejects is skipped and the moves after it are     *)
(* still applied; no error is raised.                                      *)
C18_MovesAsMoveByMove ==
    WellFormed(state.root) =>
        \A moves \in ProbeLists :
            LET many == treeReducer(state,
                            [type |-> "MAKE_MOVES", payload |-> moves])
                each == OneByOne(state, moves)
            IN /\ ~many.thrown /\ ~each.thrown
               /\ many.state = each.state

\* MAKE_MOVES [d4, d4, c5] has been dispatched at the root: the second d4
\* is rejected and skipped, and c5 is applied below the d4 played first
C18_Witness ==
    /\ last.type = "MAKE_MOVES" /\ last.payload = <<"d4", "d4", "c5">>
    /\ ~thrown
    /\ WellFormed(state.root)
    /\ Len(state.position) = 2
    /\ ResolvesFully(state.root, state.position)
    /\ NodeAt(state.root, state.position).move = "c5"
    /\ NodeAt(state.root, sliceInit(state.position)).move = "d4"

---------------------------------------------------------------------------
(* Ply index *)

(* C19: starting from a default tree, after any sequence of move,          *)
(* navigation, deletion, promotion and SET_FEN actions the root has        *)
(* halfMoves 0 and every other node has the halfMoves of its parent plus   *)
(* one, which is the length of its path from the root.                     *)
C19_PlyIsDepth ==
    \A a \in Addresses(state.root) :
        IsNode(NodeAt(state.root, a)) =>
            NodeAt(state.root, a).halfMoves = Len(a)

\* the tree has been rebuilt by SET_FEN from the position after 1. e4 and
\* two moves have been applied below the new root
C19_Witness ==
    /\ state.root.fen = <<"e4">>
    /\ state.root.halfMoves = 0
    /\ ResolvesFully(state.root, <<0, 0>>)
    /\ NodeAt(state.root, <<0>>).move = "e5"
    /\ NodeAt(state.root, <<0, 0>>).halfMoves = 2

---------------------------------------------------------------------------
(* Resolvability of the current path *)

(* C20: starting from a default tree, after any sequence of MAKE_MOVE,     *)
(* MAKE_MOVES, GO_TO_START, GO_TO_END, GO_TO_NEXT, GO_TO_PREVIOUS, and of  *)
(* GO_TO_MOVE, DELETE_MOVE and PROMOTE_VARIATION with the path of an       *)
(* existing node, the current path is fully resolvable: every index is in  *)
(* range and the path addresses one node, at the depth of its length.      *)
C20_PositionResolves ==
    /\ ResolvesFully(state.root, state.position)
    /\ Selected(state).at = state.position
    /\ Selected(state).node.halfMoves = Len(state.position)

---------------------------------------------------------------------------
(* Stability of the selection under deletion *)

(* C21: when DELETE_MOVE removes a node that is neither the selected node  *)
(* nor one of its ancestors, the node the current path resolves to after   *)
(* the deletion is the node it resolved to before: the selected node is    *)
(* found where the splice has left it.                                     *)
C21_DeleteKeepsSelection ==
    [][(/\ last'.type = "DELETE_MOVE"
        /\ WellFormed(state.root)
        /\ ResolvesFully(state.root, state.position)
        /\ DeletePath(state, last') # <<>>
        /\ ResolvesFully(state.root, DeletePath(state, last'))
        /\ ~IsPrefixOf(DeletePath(state, last'), state.position))
       => /\ ~thrown'
          /\ Selected(state').at =
                Shifted(state.position, DeletePath(state, last'))]_vars

=============================================================================
